---- MODULE Spec2Model ----
(***************************************************************************)
(* Smart Maintenance Priority: the two Streamlit front ends                 *)
(*   streamlit_app.py  free-text fields, artifacts loaded at module level   *)
(*   modern_app.py     bounded number inputs, artifacts loaded through      *)
(*                     st.cache_resource                                    *)
(* A Streamlit script is executed from top to bottom on every interaction   *)
(* (a widget edit or a button press).  One action of this model is one such *)
(* script run.  The classifier and the scaler are opaque: what they return  *)
(* is chosen by the environment in each run that calls them.                *)
(*                                                                          *)
(* Text is a sequence of one-character strings.  Numbers are decimal        *)
(* values [m, e] standing for m * 10^e, so that 1.5 is [m |-> 15, e |-> -1].*)
(***************************************************************************)
EXTENDS Integers, Sequences, FiniteSets, TLC

VARIABLES
    app,            \* which front end this process serves
    modelFile,      \* environment: model.pkl opens and unpickles
    scalerFile,     \* environment: scaler.pkl opens and unpickles
    cache,          \* st.cache_resource entry of load_models: <<>> or <<result>>
    reloaded,       \* history: the process read the artifact files more than once
    everFailed,     \* history: some load attempt of this process failed
    model,          \* the script's global model: "loaded", "None" or "unbound"
    scaler,         \* the script's global scaler
    MODEL_LOADED,   \* the script's ready flag
    fields,         \* the six widget values, in feature order
    out             \* what the last script run did and displayed

vars == <<app, modelFile, scalerFile, cache, reloaded, everFailed,
          model, scaler, MODEL_LOADED, fields, out>>

\* ------------------------------------------------------------ bounds

\* integer class codes the classifier may return: -1 .. MaxCode
MaxCode == 3
\* predict_proba returns three probabilities k / ProbDenom that sum to 1
ProbDenom == 2

\* ------------------------------------------------------------ text

Whitespace == {" ", "\t"}
Digits == <<"0", "1", "2", "3", "4", "5", "6", "7", "8", "9">>
IsDigit(c) == \E d \in 1..10 : Digits[d] = c
DigitVal(c) == (CHOOSE d \in 1..10 : Digits[d] = c) - 1

RECURSIVE lstrip(_)
lstrip(s) == IF s # <<>> /\ Head(s) \in Whitespace THEN lstrip(Tail(s)) ELSE s

RECURSIVE rstrip(_)
rstrip(s) ==
    IF s # <<>> /\ s[Len(s)] \in Whitespace
    THEN rstrip(SubSeq(s, 1, Len(s) - 1))
    ELSE s

\* str.strip()
strip(s) == rstrip(lstrip(s))

\* str.startswith(p)
startswith(s, p) == Len(s) >= Len(p) /\ SubSeq(s, 1, Len(p)) = p

EgPrefix == <<"e", ".", "g", ".">>

\* one term of the any(...) of the press handler
InvalidNoStrip(i) == startswith(i, EgPrefix) \/ i = <<>>
Invalid(i) == startswith(strip(i), EgPrefix) \/ strip(i) = <<>>

\* ------------------------------------------------------------ float()

ParseError == [ok |-> FALSE, kind |-> "err", m |-> 0, e |-> 0]
Num(m, e) == [ok |-> TRUE, kind |-> "num", m |-> m, e |-> e]

\* an optional sign in front of t
ScanSign(t) ==
    IF t # <<>> /\ Head(t) \in {"+", "-"}
    THEN [sgn |-> IF Head(t) = "-" THEN -1 ELSE 1, rest |-> Tail(t)]
    ELSE [sgn |-> 1, rest |-> t]

\* the digits in front of s: how many, the number they continue from acc, the rest
RECURSIVE ScanDigits(_, _, _)
ScanDigits(s, n, acc) ==
    IF s # <<>> /\ IsDigit(Head(s))
    THEN ScanDigits(Tail(s), n + 1, 10 * acc + DigitVal(Head(s)))
    ELSE [n |-> n, val |-> acc, rest |-> s]

\* digits, optionally a point and more digits: the value is m * 10^e
ScanMantissa(r) ==
    LET a == ScanDigits(r, 0, 0)
    IN  IF a.rest # <<>> /\ Head(a.rest) = "."
        THEN LET b == ScanDigits(Tail(a.rest), 0, a.val)
             IN  [digits |-> a.n + b.n, m |-> b.val, e |-> 0 - b.n, rest |-> b.rest]
        ELSE [digits |-> a.n, m |-> a.val, e |-> 0, rest |-> a.rest]

\* nothing, or "e", an optional sign and at least one digit up to the end
ScanExponent(r) ==
    IF r = <<>> THEN [ok |-> TRUE, e |-> 0]
    ELSE IF Head(r) # "e" THEN [ok |-> FALSE, e |-> 0]
    ELSE LET g == ScanSign(Tail(r))
             d == ScanDigits(g.rest, 0, 0)
         IN  [ok |-> d.n >= 1 /\ d.rest = <<>>, e |-> g.sgn * d.val]

ParseUnsigned(r) ==
    IF r = <<"n", "a", "n">>
    THEN [ok |-> TRUE, kind |-> "nan", m |-> 0, e |-> 0]
    ELSE IF r = <<"i", "n", "f">> \/ r = <<"i", "n", "f", "i", "n", "i", "t", "y">>
    THEN [ok |-> TRUE, kind |-> "inf", m |-> 1, e |-> 0]
    ELSE LET mt == ScanMantissa(r)
             ex == ScanExponent(mt.rest)
         IN  IF mt.digits = 0 \/ ~ex.ok THEN ParseError ELSE Num(mt.m, mt.e + ex.e)

\* float(s) on text over digits, blanks, ".", "+", "-" and lower-case letters:
\* blanks around, a sign, then nan / inf / infinity or digits with at most one
\* point and an optional exponent.  ok = FALSE is the ValueError.
ParseFloat(s) ==
    LET g == ScanSign(strip(s))
        v == ParseUnsigned(g.rest)
    IN  IF v.ok THEN [v EXCEPT !.m = g.sgn * v.m] ELSE v

\* ------------------------------------------------------------ numbers

RECURSIVE Pow10(_)
Pow10(n) == IF n <= 0 THEN 1 ELSE 10 * Pow10(n - 1)

\* v <= k and v >= k for a decimal value v and an integer k; nan and inf
\* compare false with every bound
Leq(v, k) ==
    /\ v.kind = "num"
    /\ IF v.e >= 0 THEN v.m * Pow10(v.e) <= k ELSE v.m <= k * Pow10(0 - v.e)
Geq(v, k) ==
    /\ v.kind = "num"
    /\ IF v.e >= 0 THEN v.m * Pow10(v.e) >= k ELSE v.m >= k * Pow10(0 - v.e)

\* min_value and max_value of the six st.number_input widgets
Range == <<[lo |-> -50, hi |-> 200], [lo |-> 0, hi |-> 10], [lo |-> 0, hi |-> 100],
           [lo |-> 1, hi |-> 480], [lo |-> 0, hi |-> 100000], [lo |-> 0, hi |-> 100]>>

InRange(k, v) == Geq(v, Range[k].lo) /\ Leq(v, Range[k].hi)

\* value= of the six st.number_input widgets
NumberDefaults == <<Num(250, -1), Num(15, -1), Num(50, -1), Num(30, 0), Num(1000, 0), Num(85, 0)>>

\* st.number_input: an entry outside [min_value, max_value] is not committed
\* and the widget keeps its value
NumberInput(k, cur, v) == IF InRange(k, v) THEN v ELSE cur

\* the second argument of the six st.text_input widgets
Placeholder ==
    <<EgPrefix \o <<",", " ", "7", "5">>,
      EgPrefix \o <<",", " ", "1", ".", "5">>,
      EgPrefix \o <<",", " ", "5", ".", "0">>,
      EgPrefix \o <<",", " ", "3", "0">>,
      EgPrefix \o <<",", " ", "1", "0", "0", "0">>,
      EgPrefix \o <<",", " ", "8", "5">>>>

\* ------------------------------------------------------------ inputs

\* what the user types into number_input k (modern_app.py)
NumberEntries(k) ==
    CASE k = 1 -> {Num(-501, -1), Num(-500, -1), Num(250, -1), Num(2000, -1), Num(2001, -1)}
      [] k = 2 -> {Num(15, -1), Num(100, -1), Num(101, -1)}
      [] k = 3 -> {Num(50, -1), Num(1000, -1)}
      [] k = 4 -> {Num(0, 0), Num(1, 0), Num(30, 0)}
      [] k = 5 -> {Num(1000, 0), Num(100000, 0), Num(100050, 0)}
      [] k = 6 -> {Num(85, 0), Num(101, 0)}

\* what the user types into text_input k (streamlit_app.py)
TextEntries(k) ==
    {Placeholder[k]} \cup
    CASE k = 1 -> {<<>>, <<" ">>, <<"a", "b", "c">>, <<"7", "5">>, <<" ", "7", "5", " ">>,
                   <<"5", "0", "0">>, <<"n", "a", "n">>, <<"7", "e", "1">>,
                   <<" ">> \o EgPrefix \o <<" ", "8", "0">>}
      [] k = 2 -> {<<"1", ".", "5">>, <<"1", ".", "5", ".", "5">>}
      [] k = 3 -> {<<"5", ".", "0">>}
      [] k = 4 -> {<<"3", "0">>, <<"\t">>}
      [] k = 5 -> {<<"1", "0", "0", "0">>}
      [] k = 6 -> {<<"8", "5">>, <<"1", "0", "1">>}

\* ------------------------------------------------------------ the artifacts

PInt(c) == [kind |-> "int", code |-> c, text |-> ""]
PStr(s) == [kind |-> "str", code |-> 0, text |-> s]
PRaise == [kind |-> "raise", code |-> 0, text |-> ""]

\* what model.predict(...)[0] can be: an integer class code, a label string,
\* or the call raises (scaler.transform returns, "ok", or raises, "raise")
PredictOutcomes ==
    {PInt(c) : c \in -1..MaxCode} \cup
    {PStr(s) : s \in {"Low", "Medium", "High", "Critical"}} \cup {PRaise}

\* what model.predict_proba(...)[0] can be: the attribute is missing, the call
\* raises, or three probabilities d[i] / ProbDenom
ProbaOutcomes ==
    {[kind |-> "absent", dist |-> <<>>], [kind |-> "raise", dist |-> <<>>]} \cup
    {[kind |-> "ok", dist |-> d] :
        d \in {x \in [1..3 -> 0..ProbDenom] : x[1] + x[2] + x[3] = ProbDenom}}

\* the list np.random.choice draws from
DemoLabels == {"Low", "Medium", "High"}

NoProba == [kind |-> "absent", dist |-> <<>>]
Env(tr, p, q, ch) == [tr |-> tr, p |-> p, q |-> q, ch |-> ch]

\* what the environment decides in one press: with the artifacts ready what
\* transform, predict and predict_proba do (a call after a raise is not made),
\* without them the label np.random.choice draws
EnvChoices(ready) ==
    IF ready
    THEN {Env("raise", PRaise, NoProba, "Low"), Env("ok", PRaise, NoProba, "Low")} \cup
         {Env("ok", p, q, "Low") : p \in PredictOutcomes \ {PRaise}, q \in ProbaOutcomes}
    ELSE {Env("ok", PRaise, NoProba, ch) : ch \in DemoLabels}

\* ------------------------------------------------------------ str()

RECURSIVE NatStr(_)
NatStr(n) == IF n < 10 THEN Digits[n + 1] ELSE NatStr(n \div 10) \o Digits[(n % 10) + 1]

\* str(c) of an integer, as the f-string of the success message formats it
IntStr(c) == IF c < 0 THEN "-" \o NatStr(0 - c) ELSE NatStr(c)

\* ------------------------------------------------------------ loading

Artifacts(m, s, ready) == [model |-> m, scaler |-> s, ready |-> ready]

\* streamlit_app.py, the module-level try/except: model is bound once its file
\* is read, the flag is set after both reads
StreamlitLoadFlagEarly(mf, sf) ==
    Artifacts(IF mf THEN "loaded" ELSE "unbound",
              IF mf /\ sf THEN "loaded" ELSE "unbound", mf)
StreamlitLoad(mf, sf) ==
    Artifacts(IF mf THEN "loaded" ELSE "unbound",
              IF mf /\ sf THEN "loaded" ELSE "unbound", mf /\ sf)

\* modern_app.py, load_models()
load_models(mf, sf) ==
    IF mf /\ sf THEN Artifacts("loaded", "loaded", TRUE) ELSE Artifacts("None", "None", FALSE)

\* @st.cache_resource around load_models: the first call runs the function and
\* stores what it returned, a failure's (None, None, False) included; later
\* calls return the stored value.  attempted = the function body ran.
cache_resource_uncached(c, mf, sf) ==
    [value |-> load_models(mf, sf), cache |-> c, attempted |-> TRUE]
cache_resource(c, mf, sf) ==
    IF c # <<>>
    THEN [value |-> c[1], cache |-> c, attempted |-> FALSE]
    ELSE [value |-> load_models(mf, sf), cache |-> <<load_models(mf, sf)>>, attempted |-> TRUE]

\* ------------------------------------------------------------ prediction

Rat(n, d) == [num |-> n, den |-> d]

\* max() of a sequence of numbers
Max(d) == CHOOSE x \in {d[i] : i \in DOMAIN d} : \A i \in DOMAIN d : d[i] <= x
Min(d) == CHOOSE x \in {d[i] : i \in DOMAIN d} : \A i \in DOMAIN d : d[i] >= x

\* prediction_map.get(prediction_raw, 'Medium')
prediction_map_default_low(c) ==
    CASE c = 0 -> "Low" [] c = 1 -> "Medium" [] c = 2 -> "High" [] OTHER -> "Low"
prediction_map(c) ==
    CASE c = 0 -> "Low" [] c = 1 -> "Medium" [] c = 2 -> "High" [] OTHER -> "Medium"

\* modern_app.py: the isinstance test on prediction_raw
Prediction(p) == IF p.kind = "int" THEN prediction_map(p.code) ELSE p.text

\* modern_app.py: the try/except around predict_proba
ConfidenceOfMin(q) ==
    IF q.kind = "ok" THEN Rat(Min(q.dist) * 100, ProbDenom) ELSE Rat(85, 1)
Confidence(q) ==
    IF q.kind = "ok" THEN Rat(Max(q.dist) * 100, ProbDenom) ELSE Rat(85, 1)

\* modern_app.py: confidence of the demo branch
DemoConfidenceAsDefault == Rat(85, 1)
DemoConfidence == Rat(75, 1)

\* recommendations.get(prediction, 'Monitor regularly')
recommendations(label) ==
    CASE label = "High" -> "Immediate action required"
      [] label = "Medium" -> "Schedule maintenance"
      [] label = "Low" -> "Monitor regularly"
      [] OTHER -> "Monitor regularly"

\* risk_score
risk_score_swapped(label) == IF label = "High" THEN 55 ELSE IF label = "Medium" THEN 85 ELSE 25
risk_score(label) == IF label = "High" THEN 85 ELSE IF label = "Medium" THEN 55 ELSE 25

\* the external calls of a ready press, up to the one that raised
ProbaCall(q) == IF q.kind = "absent" THEN <<>> ELSE <<"predict_proba">>

\* ------------------------------------------------------------ one script run

\* nothing pressed: the page shows the form only
Blank ==
    [pressed |-> FALSE, error |-> "none", label |-> "none", conf |-> <<>>,
     rec |-> "none", risk |-> <<>>, calls |-> <<>>, passed |-> <<>>,
     raw |-> <<>>, proba |-> <<>>]

\* modern_app.py, if predict_button: no try/except around transform and
\* predict, so a raise there ends the run with Streamlit's exception box
ModernHandler(inputs, ready, tr, p, q, ch) ==
    LET base == [Blank EXCEPT !.pressed = TRUE, !.passed = <<inputs>>]
        show(b, prediction, confidence) ==
            [b EXCEPT !.label = prediction, !.conf = <<confidence>>,
                      !.rec = recommendations(prediction),
                      !.risk = <<risk_score(prediction)>>]
    IN  IF ready
        THEN IF tr = "raise"
             THEN [base EXCEPT !.error = "exception", !.calls = <<"transform">>]
             ELSE IF p.kind = "raise"
             THEN [base EXCEPT !.error = "exception", !.calls = <<"transform", "predict">>]
             ELSE show([base EXCEPT !.calls = <<"transform", "predict">> \o ProbaCall(q),
                                    !.raw = <<p>>, !.proba = <<q>>],
                       Prediction(p), Confidence(q))
        ELSE show([base EXCEPT !.calls = <<"choice">>], ch, DemoConfidence)

\* streamlit_app.py, except Exception as e: st.error(f"An error occurred: {e}")
StreamlitExceptSilent == "none"
StreamlitExcept == "generic"

\* streamlit_app.py, if st.button(...): the whole handler is inside the try;
\* "fill" is the message "Please fill in all the input fields correctly."
StreamlitHandler(inputs, ready, tr, p, ch) ==
    LET base == [Blank EXCEPT !.pressed = TRUE]
        parsed == [k \in 1..6 |-> ParseFloat(inputs[k])]
        data == [base EXCEPT !.passed = <<parsed>>]
    IN  IF \E k \in 1..6 : Invalid(inputs[k])
        THEN [base EXCEPT !.error = "fill"]
        ELSE IF \E k \in 1..6 : ~parsed[k].ok
        THEN [base EXCEPT !.error = StreamlitExcept]
        ELSE IF ready
        THEN IF tr = "raise"
             THEN [data EXCEPT !.error = StreamlitExcept, !.calls = <<"transform">>]
             ELSE IF p.kind = "raise"
             THEN [data EXCEPT !.error = StreamlitExcept, !.calls = <<"transform", "predict">>]
             ELSE [data EXCEPT !.calls = <<"transform", "predict">>, !.raw = <<p>>,
                               !.label = IF p.kind = "int" THEN IntStr(p.code) ELSE p.text]
        ELSE [data EXCEPT !.calls = <<"choice">>, !.label = ch]

\* modern_app.py from top to bottom; load_models() goes through the
\* process-wide st.cache_resource entry
ModernScript(newFields, pressed) ==
    LET r == cache_resource(cache, modelFile, scalerFile)
    IN  /\ cache' = r.cache
        /\ reloaded' = (reloaded \/ r.attempted)
        /\ everFailed' = (everFailed \/ (r.attempted /\ ~r.value.ready))
        /\ model' = r.value.model
        /\ scaler' = r.value.scaler
        /\ MODEL_LOADED' = r.value.ready
        /\ fields' = newFields
        /\ IF pressed
           THEN \E c \in EnvChoices(r.value.ready) :
                   out' = ModernHandler(newFields, r.value.ready, c.tr, c.p, c.q, c.ch)
           ELSE out' = Blank
        /\ UNCHANGED <<app, modelFile, scalerFile>>

\* streamlit_app.py from top to bottom.  The module-level load is ordinary
\* script code, so every run reads the files again.  The st.warning of a failed
\* load precedes st.set_page_config; the run is taken to go on after it, as it
\* does on Streamlit releases that accept set_page_config anywhere.
StreamlitScript(newFields, pressed) ==
    LET a == StreamlitLoad(modelFile, scalerFile)
    IN  /\ reloaded' = TRUE
        /\ everFailed' = (everFailed \/ ~a.ready)
        /\ model' = a.model
        /\ scaler' = a.scaler
        /\ MODEL_LOADED' = a.ready
        /\ fields' = newFields
        /\ IF pressed
           THEN \E c \in EnvChoices(a.ready) :
                   out' = StreamlitHandler(newFields, a.ready, c.tr, c.p, c.ch)
           ELSE out' = Blank
        /\ UNCHANGED <<app, modelFile, scalerFile, cache>>

\* ------------------------------------------------------------ the state machine

Apps == {"modern", "streamlit"}

\* the process has started and the page has been opened: the script ran once
Init ==
    /\ app \in Apps
    /\ modelFile \in BOOLEAN
    /\ scalerFile \in BOOLEAN
    /\ reloaded = FALSE
    /\ everFailed = ~(modelFile /\ scalerFile)
    /\ out = Blank
    /\ IF app = "modern"
       THEN LET r == cache_resource(<<>>, modelFile, scalerFile)
            IN  /\ cache = r.cache
                /\ model = r.value.model
                /\ scaler = r.value.scaler
                /\ MODEL_LOADED = r.value.ready
                /\ fields = NumberDefaults
       ELSE LET a == StreamlitLoad(modelFile, scalerFile)
            IN  /\ cache = <<>>
                /\ model = a.model
                /\ scaler = a.scaler
                /\ MODEL_LOADED = a.ready
                /\ fields = Placeholder

\* the environment: the artifact files appear, disappear or get corrupted
FilesChange ==
    /\ \E mf \in BOOLEAN, sf \in BOOLEAN :
          /\ <<mf, sf>> # <<modelFile, scalerFile>>
          /\ modelFile' = mf
          /\ scalerFile' = sf
    /\ UNCHANGED <<app, cache, reloaded, everFailed, model, scaler,
                   MODEL_LOADED, fields, out>>

\* the user commits a new value in a number_input; the script reruns
ModernEdit ==
    /\ app = "modern"
    /\ \E k \in 1..6 : \E v \in NumberEntries(k) :
          /\ NumberInput(k, fields[k], v) # fields[k]
          /\ ModernScript([fields EXCEPT ![k] = NumberInput(k, fields[k], v)], FALSE)

\* the user presses the predict button of modern_app.py
ModernPress ==
    /\ app = "modern"
    /\ ModernScript(fields, TRUE)

\* the user changes a text_input; the script reruns
StreamlitEdit ==
    /\ app = "streamlit"
    /\ \E k \in 1..6 : \E s \in TextEntries(k) :
          /\ s # fields[k]
          /\ StreamlitScript([fields EXCEPT ![k] = s], FALSE)

\* the user presses the predict button of streamlit_app.py
StreamlitPress ==
    /\ app = "streamlit"
    /\ StreamlitScript(fields, TRUE)

Next == FilesChange \/ ModernEdit \/ ModernPress \/ StreamlitEdit \/ StreamlitPress

Spec == Init /\ [][Next]_vars

\* ------------------------------------------------------------ properties

\* the closed set of priority labels
Labels == {"Low", "Medium", "High"}

\* a field that is empty once blanks are trimmed
AllBlank(s) == \A i \in 1..Len(s) : s[i] \in Whitespace

\* the run called the scaler or the classifier
ModelCalled ==
    \E i \in DOMAIN out.calls : out.calls[i] \in {"transform", "predict", "predict_proba"}

\* the confidence shown is exactly n percent
ConfidenceIs(n) == Len(out.conf) = 1 /\ out.conf[1].num = n * out.conf[1].den

\* the label a class code stands for
LabelOfCode(c) == IF c = 0 THEN "Low" ELSE IF c = 2 THEN "High" ELSE "Medium"

\* C1: streamlit_app.py: a press with a field that is blank or still holds its
\* placeholder ends with the "please fill in" error, calls neither
\* scaler.transform nor model.predict and shows no label, artifacts loaded or not
C1_BlankOrPlaceholderRejected ==
    (/\ app = "streamlit"
     /\ out.pressed
     /\ \E k \in 1..6 : AllBlank(fields[k]) \/ fields[k] = Placeholder[k])
    => (out.error = "fill" /\ ~ModelCalled /\ out.calls = <<>> /\ out.label = "none")

C1_Witness ==
    /\ app = "streamlit"
    /\ out.pressed
    /\ MODEL_LOADED
    /\ fields[1] = <<" ">>
    /\ \A k \in 2..6 : ~Invalid(fields[k]) /\ ParseFloat(fields[k]).ok
    /\ out.error = "fill"

\* C2: modern_app.py: when model.predict returns an integer class code c the
\* label is Low for 0, Medium for 1, High for 2 and Medium for any other
\* integer, whatever the six inputs are
C2_CodeDeterminesLabel ==
    (app = "modern" /\ out.raw # <<>> /\ out.raw[1].kind = "int")
    => out.label = LabelOfCode(out.raw[1].code)

C2_Witness ==
    /\ app = "modern"
    /\ out.raw = <<PInt(MaxCode)>>
    /\ out.label = "Medium"
    /\ fields # NumberDefaults

\* the six fields of the press make a feature vector
ValidInput ==
    app = "streamlit" => \A k \in 1..6 : ~Invalid(fields[k]) /\ ParseFloat(fields[k]).ok

C4_LabelInClosedSet == out.label # "none" => out.label \in Labels

\* C5: modern_app.py: recommendation and risk score depend on the label only:
\* High gives "Immediate action required" and 85, Medium "Schedule maintenance"
\* and 55, Low "Monitor regularly" and 25, any other label "Monitor regularly";
\* so class code 2 gives High, "Immediate action required" and 85
C5_RecommendationAndRisk ==
    (app = "modern" /\ out.label # "none")
    => /\ out.label = "High" =>
            out.rec = "Immediate action required" /\ out.risk = <<85>>
       /\ out.label = "Medium" =>
            out.rec = "Schedule maintenance" /\ out.risk = <<55>>
       /\ out.label = "Low" =>
            out.rec = "Monitor regularly" /\ out.risk = <<25>>
       /\ out.label \notin Labels => out.rec = "Monitor regularly"
       /\ out.raw = <<PInt(2)>> =>
            /\ out.label = "High"
            /\ out.rec = "Immediate action required"
            /\ out.risk = <<85>>

C5_Witness ==
    /\ app = "modern"
    /\ out.raw = <<PInt(2)>>
    /\ out.proba # <<>> /\ out.proba[1].kind = "ok"
    /\ ~ConfidenceIs(85)
    /\ fields # NumberDefaults
    /\ out.risk = <<85>>

\* a press of streamlit_app.py whose fields all pass the blank / "e.g." test
\* and one of which float() rejects
NonNumericPress ==
    /\ app = "streamlit"
    /\ out.pressed
    /\ \A k \in 1..6 : ~Invalid(fields[k])
    /\ \E k \in 1..6 : ~ParseFloat(fields[k]).ok

\* C6 as stated: such a press shows the same "please fill in" error as the
\* blank / placeholder case, makes no call and shows no label
C6_Original ==
    NonNumericPress
    => (out.error = "fill" /\ out.calls = <<>> /\ out.label = "none")

\* C6 amended: such a press shows the generic "An error occurred: ..." error of
\* the except clause, not the "please fill in" one; it makes no call, draws no
\* demo label and shows no label
C6_NonNumericGenericError ==
    NonNumericPress
    => (out.error = "generic" /\ out.calls = <<>> /\ out.passed = <<>> /\ out.label = "none")

C6_Witness ==
    /\ NonNumericPress
    /\ MODEL_LOADED
    /\ fields[1] = <<"a", "b", "c">>
    /\ out.error = "generic"

C8_ProbaFallback ==
    (app = "modern" /\ out.proba # <<>>)
    => /\ out.error = "none"
       /\ out.label = IF out.raw[1].kind = "int"
                      THEN LabelOfCode(out.raw[1].code)
                      ELSE out.raw[1].text
       /\ out.proba[1].kind \in {"absent", "raise"} => ConfidenceIs(85)
       /\ out.proba[1].kind = "ok" =>
            \E i \in 1..3 :
               /\ \A j \in 1..3 : out.proba[1].dist[j] <= out.proba[1].dist[i]
               /\ Len(out.conf) = 1
               /\ out.conf[1].num * ProbDenom = out.proba[1].dist[i] * 100 * out.conf[1].den

C8_Witness ==
    /\ app = "modern"
    /\ out.proba # <<>> /\ out.proba[1].kind = "raise"
    /\ out.raw = <<PInt(2)>>
    /\ out.label = "High"
    /\ ConfidenceIs(85)

\* C9: every feature vector handed to the prediction pipeline, in both front
\* ends, has each field inside the range of its number_input
C9_PassedInRange ==
    out.passed # <<>> => \A k \in 1..6 : InRange(k, out.passed[1][k])

\* C10: the ready flag is true exactly when the classifier and the scaler were
\* both loaded, and scaler.transform / model.predict are called only then
C10_ReadyIffBothLoaded ==
    /\ MODEL_LOADED <=> (model = "loaded" /\ scaler = "loaded")
    /\ ModelCalled => (MODEL_LOADED /\ model = "loaded" /\ scaler = "loaded")

C10_Witness ==
    /\ app = "streamlit"
    /\ model = "loaded"
    /\ scaler = "unbound"
    /\ ~MODEL_LOADED
    /\ out.pressed
    /\ out.calls = <<"choice">>

====
